---------------------------- MODULE Spec2Model ----------------------------
(***************************************************************************)
(* Model of the MCP stdio correlation client (tests/helpers/mcp_client.ts) *)
(* and of the tools/call and tools/list dispatch of the Kubernetes MCP     *)
(* server (src/server.ts).                                                 *)
(*                                                                         *)
(* Bytes and characters are strings.  The wire alphabet is                 *)
(*   "LF"  the line terminator            "SP"  a blank                    *)
(*   "{" "}"  the braces of a JSON object "x"   any other ASCII character  *)
(*   "c1" "c2"  the two bytes of one non-ASCII UTF-8 character             *)
(*   "Rd" "y"   the two halves of "Ready to receive MCP requests"          *)
(*   "i1".."i5" the member "id":n         "R" "E" "M"  the member result,  *)
(*                                        error, method                    *)
(* Decoded text has "U" for the decoded non-ASCII character and "FFFD"     *)
(* for the replacement character in place of "c1" and "c2".                *)
(***************************************************************************)
EXTENDS Integers, Sequences, FiniteSets, TLC

(* ------------------------------ bounds --------------------------------- *)
MaxCalls == 2        \* sendRequest calls accepted per run
MaxSpawn == 2        \* worker processes spawned per run
MaxEmit  == 2        \* lines the workers write per run
MaxThrows == 1       \* sendRequest calls refused per run

(* -------------------------- program constants -------------------------- *)
ResponseTimeout == 2000

(* ------------------------------ variables ------------------------------ *)
VARIABLES
  server,            \* this.server: 0 is null, p > 0 the p-th spawned process
  requestId,         \* this.requestId
  responseHandlers,  \* keys of this.responseHandlers
  serverReady,       \* this.serverReady
  outputBuffer,      \* this.outputBuffer, decoded characters
  calls,             \* per call id: the promise and the timer of sendRequest
  starts,            \* per process: the promise and the timer of start()
  procStatus,        \* per process: "unspawned", "failing", "failed" (spawn error),
                     \* "starting", "serving" (readiness announced), "exited", "killed"
  pipe,              \* per process: bytes written to stdout, not yet read
  stdin,             \* per process: ids of the requests written to its stdin
  notReadyThrown,    \* number of sendRequest calls that threw "Server not ready"
  emitCount,         \* number of lines the workers wrote besides the readiness line
  inflight,          \* envelopes of the frames written and not yet parsed, in order
  demux,             \* "ok", "altered" (an envelope differs in its text only) or
                     \* "spurious", "wrong" (an envelope that was not the next one written)
  ignored,           \* number of complete lines skipped, as not being JSON objects,
                     \* while a response handler was registered
  lastDropped        \* the last envelope parsed that matched no handler: its id and
                     \* the state its call was in

VARIABLES
  srvState,          \* position of main(): "start", "kube", "connected", "ready", "exited"
  srvOut,            \* lines main() printed with console.log, in order
  exitCode,          \* argument of Deno.exit, -1 while running
  kubeOk,            \* whether kc.loadFromDefault() succeeds
  cfgNamespace,      \* config.kubernetes.namespace
  cluster,           \* the pods and nodes of the cluster
  apiUp,             \* whether the API server answers
  lastRequest,       \* the request the server handled last
  lastResponse,      \* the envelope it answered with
  invoked,           \* handler invocations of the last request: tool and input
  apiCalls,          \* cluster API calls of the last request
  served             \* the methods of the requests handled so far

serverVars == <<srvState, srvOut, exitCode, kubeOk, cfgNamespace, cluster, apiUp,
                lastRequest, lastResponse, invoked, apiCalls, served>>

monitorVars == <<emitCount, inflight, demux, ignored, lastDropped>>

clientVars == <<server, requestId, responseHandlers, serverReady, outputBuffer,
                calls, starts, procStatus, pipe, stdin, notReadyThrown, monitorVars>>

(* --------------------------- text primitives --------------------------- *)
IdToks == <<"i1", "i2", "i3", "i4", "i5">>
IdTokSet == {IdToks[n] : n \in 1..Len(IdToks)}
IdOfTok(t) == CHOOSE n \in 1..Len(IdToks) : IdToks[n] = t
KindToks == {"R", "E", "M"}
KindOfTok(t) == IF t = "R" THEN "result" ELSE IF t = "E" THEN "error" ELSE "method"
PayloadChars == {"x", "U", "FFFD", "SP"}

ReadyMessage == <<"Rd", "y">>

\* Buffer.toString(): UTF-8 decoding of one chunk on its own
RECURSIVE toString(_)
toString(data) ==
  IF data = <<>> THEN <<>>
  ELSE IF data[1] = "c1" /\ Len(data) >= 2 /\ data[2] = "c2"
       THEN <<"U">> \o toString(SubSeq(data, 3, Len(data)))
  ELSE IF data[1] \in {"c1", "c2"}
       THEN <<"FFFD">> \o toString(Tail(data))
  ELSE <<data[1]>> \o toString(Tail(data))

\* String.prototype.includes
includes(s, needle) ==
  \E i \in 1..(Len(s) - Len(needle) + 1) :
     SubSeq(s, i, i + Len(needle) - 1) = needle

\* String.prototype.split("\n"): always at least one element
RECURSIVE split(_)
split(s) ==
  IF \A i \in 1..Len(s) : s[i] # "LF" THEN <<s>>
  ELSE LET k == CHOOSE i \in 1..Len(s) :
                   s[i] = "LF" /\ \A j \in 1..(i - 1) : s[j] # "LF"
       IN <<SubSeq(s, 1, k - 1)>> \o split(SubSeq(s, k + 1, Len(s)))

\* String.prototype.trim
RECURSIVE trim(_)
trim(s) ==
  IF s = <<>> THEN s
  ELSE IF s[1] \in {"SP"} THEN trim(Tail(s))
  ELSE IF s[Len(s)] \in {"SP"} THEN trim(SubSeq(s, 1, Len(s) - 1))
  ELSE s

startsWith(s, c) == Len(s) >= 1 /\ s[1] = c
endsWith(s, c) == Len(s) >= 1 /\ s[Len(s)] = c

NoResponse == [id |-> 0, kind |-> "none", payload |-> <<>>]

\* JSON.parse of a line that starts with "{" and ends with "}":
\* ok = FALSE stands for the SyntaxError
JSONparse(line) ==
  LET body == SubSeq(line, 2, Len(line) - 1)
      hasId == body # <<>> /\ body[1] \in IdTokSet
      rest == IF hasId THEN Tail(body) ELSE body
      hasKind == rest # <<>> /\ rest[1] \in KindToks
      pay == IF hasKind THEN Tail(rest) ELSE rest
  IN IF Len(line) >= 2 /\ \A i \in 1..Len(pay) : pay[i] \in PayloadChars
     THEN [ok |-> TRUE,
           value |-> [id |-> IF hasId THEN IdOfTok(body[1]) ELSE 0,
                      kind |-> IF hasKind THEN KindOfTok(rest[1]) ELSE "none",
                      payload |-> pay]]
     ELSE [ok |-> FALSE, value |-> NoResponse]

(* ------------------------------ sendRequest ---------------------------- *)
\* requested is the duration the caller asked for (0: none), timeoutMs the
\* delay of the timer that was armed
NoCall == [state |-> "none", timer |-> "none", response |-> NoResponse,
           settles |-> 0, timeoutMs |-> 0, requested |-> 0]

\* as responseHandler, without clearTimeout(timeout)
responseHandlerKeepsTimer(cs, id, response) ==
  [cs EXCEPT ![id] =
     [@ EXCEPT !.settles = @ + 1,
               !.state = IF @ = "pending" THEN "resolved" ELSE @,
               !.response = IF cs[id].state = "pending" THEN response ELSE @]]

\* the closure stored by this.responseHandlers.set(id, ...):
\* clearTimeout(timeout); resolve(response)
responseHandler(cs, id, response) ==
  [cs EXCEPT ![id] =
     [@ EXCEPT !.timer = IF @ = "armed" THEN "cleared" ELSE @,
               !.settles = @ + 1,
               !.state = IF @ = "pending" THEN "resolved" ELSE @,
               !.response = IF cs[id].state = "pending" THEN response ELSE @]]

(* -------------------------- processOutputBuffer ------------------------ *)
\* bookkeeping of the model, not of the program: compare the envelope
\* JSON.parse returned with the next frame the worker wrote
observe(st, response) ==
  IF st.mon \in {"spurious", "wrong"} THEN st
  ELSE IF response.id = 0 /\ response.kind = "none" THEN st
  ELSE IF st.exp = <<>> THEN [st EXCEPT !.mon = "spurious"]
  ELSE IF st.exp[1] = response THEN [st EXCEPT !.exp = Tail(@)]
  ELSE IF st.exp[1].id = response.id /\ st.exp[1].kind = response.kind
       THEN [st EXCEPT !.exp = Tail(@), !.mon = "altered"]
  ELSE [st EXCEPT !.mon = "wrong"]

NoDrop == [id |-> 0, was |-> "none"]
skip(st) == IF st.h = {} THEN st ELSE [st EXCEPT !.ign = @ + 1]
drop(st, response) ==
  [st EXCEPT !.dropped = [id |-> response.id,
                          was |-> IF response.id \in DOMAIN st.c
                                  THEN st.c[response.id].state ELSE "none"]]

\* as processLine, with the handler taken in order of registration, not by id
processLineFifo(raw, st) ==
  LET line == trim(raw)
  IN IF startsWith(line, "{") /\ endsWith(line, "}")
     THEN LET r == JSONparse(line)
          IN IF ~r.ok THEN skip(st)
             ELSE LET response == r.value
                      st1 == observe(st, response)
                  IN IF response.id # 0 /\ st.h # {}
                     THEN LET first == CHOOSE i \in st.h : \A j \in st.h : i <= j
                          IN [st1 EXCEPT !.h = @ \ {first},
                                         !.c = responseHandler(@, first, response)]
                     ELSE drop(st1, response)
     ELSE skip(st)

\* as processLine, with the handler table cleared when no handler matches
processLineDropClears(raw, st) ==
  LET line == trim(raw)
  IN IF startsWith(line, "{") /\ endsWith(line, "}")
     THEN LET r == JSONparse(line)
          IN IF ~r.ok THEN skip(st)
             ELSE LET response == r.value
                      st1 == observe(st, response)
                  IN IF response.id # 0 /\ response.id \in st.h
                     THEN [st1 EXCEPT !.h = @ \ {response.id},
                                      !.c = responseHandler(@, response.id, response)]
                     ELSE [drop(st1, response) EXCEPT !.h = {}]
     ELSE skip(st)

\* the body of the for loop, for one complete line
processLine(raw, st) ==
  LET line == trim(raw)
  IN IF startsWith(line, "{") /\ endsWith(line, "}")
     THEN LET r == JSONparse(line)
          IN IF ~r.ok THEN skip(st)
             ELSE LET response == r.value
                      st1 == observe(st, response)
                  IN IF response.id # 0 /\ response.id \in st.h
                     THEN [st1 EXCEPT !.h = @ \ {response.id},
                                      !.c = responseHandler(@, response.id, response)]
                     ELSE drop(st1, response)
     ELSE skip(st)

\* as processLines, without the try/catch around JSON.parse: the SyntaxError
\* ends the loop
RECURSIVE processLinesNoCatch(_, _, _)
processLinesNoCatch(lines, i, st) ==
  IF i > Len(lines) - 1 THEN st
  ELSE LET line == trim(lines[i])
       IN IF startsWith(line, "{") /\ endsWith(line, "}") /\ ~JSONparse(line).ok
          THEN st
          ELSE processLinesNoCatch(lines, i + 1, processLine(lines[i], st))

RECURSIVE processLines(_, _, _)
processLines(lines, i, st) ==
  IF i > Len(lines) - 1 THEN st
  ELSE processLines(lines, i + 1, processLine(lines[i], st))

processOutputBuffer(st) ==
  LET lines == split(st.buf)
  IN processLines(lines, 1, [st EXCEPT !.buf = lines[Len(lines)]])

ClientState == [buf |-> outputBuffer, h |-> responseHandlers, c |-> calls,
                exp |-> inflight, mon |-> demux, ign |-> ignored, dropped |-> lastDropped]

(* -------------------------------- Init --------------------------------- *)
Procs == 1..MaxSpawn
CallIds == 1..MaxCalls
NoStart == [state |-> "none", timer |-> "none", settles |-> 0]

ClientInit ==
  /\ server = 0
  /\ requestId = 0
  /\ responseHandlers = {}
  /\ serverReady = FALSE
  /\ outputBuffer = <<>>
  /\ calls = [id \in CallIds |-> NoCall]
  /\ starts = [p \in Procs |-> NoStart]
  /\ procStatus = [p \in Procs |-> "unspawned"]
  /\ pipe = [p \in Procs |-> <<>>]
  /\ stdin = [p \in Procs |-> <<>>]
  /\ notReadyThrown = 0
  /\ emitCount = 0
  /\ inflight = <<>>
  /\ demux = "ok"
  /\ ignored = 0
  /\ lastDropped = NoDrop

(* ---------------------- what the workers may write --------------------- *)
ReadyLine == <<"Rd", "y">>
\* a log line, a line in braces that is not JSON, a line with a non-ASCII
\* character, a JSON object that is no envelope
NoiseLines == {<<"x">>, <<"{", "x", "{", "}">>, <<"c1", "c2", "x">>, <<"{", "x", "}">>}
\* responses to the requests of the client
Replies == [id : CallIds, kind : {"result"}, payload : {<<>>}]
\* responses of both kinds, with and without text, a notification, and
\* requests of the worker to the client, which carry a method and an id
Envelopes == [id : CallIds, kind : {"result", "error"}, payload : {<<>>, <<"U">>}]
             \cup [id : {0} \cup CallIds, kind : {"method"}, payload : {<<>>}]

\* the bytes of one character in UTF-8
utf8(c) == IF c = "U" THEN <<"c1", "c2">> ELSE <<c>>
RECURSIVE encode(_)
encode(str) == IF str = <<>> THEN <<>> ELSE utf8(str[1]) \o encode(Tail(str))

\* the frame of an envelope, without the line terminator
Frame(e) ==
  <<"{">> \o (IF e.id = 0 THEN <<>> ELSE <<IdToks[e.id]>>)
        \o (IF e.kind = "result" THEN <<"R">>
            ELSE IF e.kind = "error" THEN <<"E">>
            ELSE IF e.kind = "method" THEN <<"M">> ELSE <<>>)
        \o encode(e.payload) \o <<"}">>

(* ------------------------------- actions ------------------------------- *)
Live == {"starting", "serving"}
Killable == Live \cup {"failing"}
Spawned == Live \cup {"exited", "killed"}

\* start(): spawn, arm the start timer, attach the listeners
Start(ok) ==
  \E p \in Procs :
    /\ procStatus[p] = "unspawned"
    /\ \A q \in Procs : q < p => procStatus[q] # "unspawned"
    /\ server' = p
    /\ procStatus' = [procStatus EXCEPT ![p] = IF ok THEN "starting" ELSE "failing"]
    /\ starts' = [starts EXCEPT ![p] =
                    [state |-> "pending", timer |-> "armed", settles |-> 0]]
    /\ UNCHANGED <<serverVars, notReadyThrown>>
    /\ UNCHANGED <<requestId, responseHandlers, serverReady, outputBuffer, calls,
                   pipe, stdin, monitorVars>>

\* what cleanup() reads and writes; raised tells whether it threw
ClientHandle == [server |-> server, serverReady |-> serverReady,
                 handlers |-> responseHandlers, status |-> procStatus,
                 raised |-> FALSE]

\* as cleanupOn, without the test of this.server: null.kill() is a TypeError
cleanupUnguardedOn(c) ==
  IF c.server = 0 THEN [c EXCEPT !.raised = TRUE]
  ELSE [c EXCEPT !.status[c.server] = IF @ \in Killable THEN "killed" ELSE @,
                 !.server = 0,
                 !.serverReady = FALSE,
                 !.handlers = {}]

\* cleanup() up to its await: kill() ends a running process and is without
\* effect on one that has ended; nothing happens when this.server is null
cleanupOn(c) ==
  IF c.server # 0
  THEN [c EXCEPT !.status[c.server] = IF @ \in Killable THEN "killed" ELSE @,
                 !.server = 0,
                 !.serverReady = FALSE,
                 !.handlers = {}]
  ELSE c

cleanup ==
  LET c == cleanupOn(ClientHandle)
  IN /\ procStatus' = c.status
     /\ server' = c.server
     /\ serverReady' = c.serverReady
     /\ responseHandlers' = c.handlers

\* as Cleanup, with the id counter reset for the next worker
CleanupResetsIds ==
  /\ cleanup
  /\ requestId' = 0
  /\ UNCHANGED <<serverVars, notReadyThrown>>
  /\ UNCHANGED <<outputBuffer, calls, starts, pipe, stdin, monitorVars>>

Cleanup ==
  /\ cleanup
  /\ UNCHANGED <<serverVars, notReadyThrown>>
  /\ UNCHANGED <<requestId, outputBuffer, calls, starts, pipe, stdin, monitorVars>>

\* the start timer fires: this.cleanup(); reject(...)
StartTimeout(p) ==
  /\ starts[p].timer = "armed"
  /\ cleanup
  /\ starts' = [starts EXCEPT ![p] =
                  [@ EXCEPT !.timer = "fired",
                            !.settles = @ + 1,
                            !.state = IF @ = "pending" THEN "rejected" ELSE @]]
  /\ UNCHANGED <<serverVars, notReadyThrown>>
  /\ UNCHANGED <<requestId, outputBuffer, calls, pipe, stdin, monitorVars>>

\* as SpawnError, without reject(error)
SpawnErrorNoReject(p) ==
  /\ procStatus[p] = "failing"
  /\ procStatus' = [procStatus EXCEPT ![p] = "failed"]
  /\ starts' = [starts EXCEPT ![p] =
                  [@ EXCEPT !.timer = IF @ = "armed" THEN "cleared" ELSE @]]
  /\ UNCHANGED <<serverVars, notReadyThrown>>
  /\ UNCHANGED <<server, requestId, responseHandlers, serverReady, outputBuffer,
                 calls, pipe, stdin, monitorVars>>

\* the "error" listener of start(): clearTimeout(timeout); reject(error)
SpawnError(p) ==
  /\ procStatus[p] = "failing"
  /\ procStatus' = [procStatus EXCEPT ![p] = "failed"]
  /\ starts' = [starts EXCEPT ![p] =
                  [@ EXCEPT !.timer = IF @ = "armed" THEN "cleared" ELSE @,
                            !.settles = @ + 1,
                            !.state = IF @ = "pending" THEN "rejected" ELSE @]]
  /\ UNCHANGED <<serverVars, notReadyThrown>>
  /\ UNCHANGED <<server, requestId, responseHandlers, serverReady, outputBuffer,
                 calls, pipe, stdin, monitorVars>>

\* the worker process ends by itself; the client registers no exit listener
WorkerExit(p) ==
  /\ procStatus[p] \in Live
  /\ procStatus' = [procStatus EXCEPT ![p] = "exited"]
  /\ UNCHANGED <<serverVars, notReadyThrown>>
  /\ UNCHANGED <<server, requestId, responseHandlers, serverReady, outputBuffer,
                 calls, starts, pipe, stdin, monitorVars>>

\* main() of the worker prints the readiness line, once
WorkerReady(p) ==
  /\ procStatus[p] = "starting"
  /\ procStatus' = [procStatus EXCEPT ![p] = "serving"]
  /\ pipe' = [pipe EXCEPT ![p] = @ \o ReadyLine \o <<"LF">>]
  /\ UNCHANGED <<serverVars, notReadyThrown>>
  /\ UNCHANGED <<server, requestId, responseHandlers, serverReady, outputBuffer,
                 calls, starts, stdin, monitorVars>>

\* the worker writes one other line to its stdout
WorkerEmit(p, line) ==
  /\ procStatus[p] \in Live
  /\ emitCount < MaxEmit
  /\ pipe' = [pipe EXCEPT ![p] = @ \o line \o <<"LF">>]
  /\ emitCount' = emitCount + 1
  /\ UNCHANGED <<serverVars, notReadyThrown>>
  /\ UNCHANGED <<server, requestId, responseHandlers, serverReady, outputBuffer,
                 calls, starts, procStatus, stdin, inflight, demux, ignored, lastDropped>>

\* the worker writes the frame of one envelope to its stdout
WorkerSend(p, e) ==
  /\ procStatus[p] \in Live
  /\ emitCount < MaxEmit
  /\ e.id = 0 \/ \E i \in 1..Len(stdin[p]) : stdin[p][i] = e.id
  /\ pipe' = [pipe EXCEPT ![p] = @ \o Frame(e) \o <<"LF">>]
  /\ emitCount' = emitCount + 1
  /\ inflight' = Append(inflight, e)
  /\ UNCHANGED <<serverVars, notReadyThrown>>
  /\ UNCHANGED <<server, requestId, responseHandlers, serverReady, outputBuffer,
                 calls, starts, procStatus, stdin, demux, ignored, lastDropped>>

\* the stdout "data" listener of start(), for a chunk of k bytes
Data(p, k) ==
  /\ procStatus[p] \in Spawned
  /\ k \in 0..Len(pipe[p])
  /\ LET data == SubSeq(pipe[p], 1, k)
         output == toString(data)
         ready == includes(output, ReadyMessage)
         st0 == [ClientState EXCEPT !.buf = @ \o output]
         st1 == IF ready THEN processOutputBuffer(st0) ELSE st0
         st2 == processOutputBuffer(st1)
     IN /\ pipe' = [pipe EXCEPT ![p] = SubSeq(@, k + 1, Len(@))]
        /\ outputBuffer' = st2.buf
        /\ responseHandlers' = st2.h
        /\ calls' = st2.c
        /\ inflight' = st2.exp
        /\ demux' = st2.mon
        /\ ignored' = st2.ign
        /\ lastDropped' = st2.dropped
        /\ serverReady' = IF ready THEN TRUE ELSE serverReady
        /\ starts' = IF ready
                     THEN [starts EXCEPT ![p] =
                             [@ EXCEPT !.timer = IF @ = "armed" THEN "cleared" ELSE @,
                                       !.settles = @ + 1,
                                       !.state = IF @ = "pending" THEN "resolved" ELSE @]]
                     ELSE starts
  /\ UNCHANGED <<serverVars, notReadyThrown>>
  /\ UNCHANGED <<server, requestId, procStatus, stdin, emitCount>>

\* sendRequest(method, params) when the readiness check fails:
\* throw new Error("Server not ready"), before anything else is done
SendRequestNotReady ==
  /\ ~serverReady \/ server = 0
  /\ notReadyThrown < MaxThrows
  /\ notReadyThrown' = notReadyThrown + 1
  /\ UNCHANGED serverVars
  /\ UNCHANGED <<server, requestId, responseHandlers, serverReady, outputBuffer, calls,
                 starts, procStatus, pipe, stdin, monitorVars>>

\* sendRequest(method, params) once the readiness check has passed, by a
\* caller that wants the call to time out after ms (0: no wish): the method
\* has no parameter for it, and the delay is TEST_CONSTANTS.timeouts.response
SendRequestWithin(ms) ==
  /\ serverReady /\ server # 0
  /\ requestId < MaxCalls
  /\ LET id == requestId + 1
     IN /\ requestId' = id
        /\ calls' = [calls EXCEPT ![id] =
                       [state |-> "pending", timer |-> "armed", response |-> NoResponse,
                        settles |-> 0, timeoutMs |-> ResponseTimeout,
                        requested |-> ms]]
        /\ responseHandlers' = responseHandlers \cup {id}
        /\ stdin' = [stdin EXCEPT ![server] = Append(@, id)]
  /\ UNCHANGED <<serverVars, notReadyThrown>>
  /\ UNCHANGED <<server, serverReady, outputBuffer, starts, procStatus, pipe, monitorVars>>

SendRequest == SendRequestWithin(0)

\* as RequestTimeout, without this.responseHandlers.delete(id)
RequestTimeoutKeepsEntry(id) ==
  /\ calls[id].timer = "armed"
  /\ calls' = [calls EXCEPT ![id] =
                 [@ EXCEPT !.timer = "fired",
                           !.settles = @ + 1,
                           !.state = IF @ = "pending" THEN "timeout" ELSE @]]
  /\ UNCHANGED <<serverVars, notReadyThrown>>
  /\ UNCHANGED <<server, requestId, responseHandlers, serverReady, outputBuffer, starts,
                 procStatus, pipe, stdin, monitorVars>>

\* as RequestTimeout, for a timer that cleanup() has cancelled without
\* rejecting the call
RequestTimeoutUnlessClosed(id) ==
  /\ calls[id].timer = "armed"
  /\ server # 0
  /\ responseHandlers' = responseHandlers \ {id}
  /\ calls' = [calls EXCEPT ![id] =
                 [@ EXCEPT !.timer = "fired",
                           !.settles = @ + 1,
                           !.state = IF @ = "pending" THEN "timeout" ELSE @]]
  /\ UNCHANGED <<serverVars, notReadyThrown>>
  /\ UNCHANGED <<server, requestId, serverReady, outputBuffer, starts, procStatus,
                 pipe, stdin, monitorVars>>

\* the timer of sendRequest fires: this.responseHandlers.delete(id); reject(...)
RequestTimeout(id) ==
  /\ calls[id].timer = "armed"
  /\ responseHandlers' = responseHandlers \ {id}
  /\ calls' = [calls EXCEPT ![id] =
                 [@ EXCEPT !.timer = "fired",
                           !.settles = @ + 1,
                           !.state = IF @ = "pending" THEN "timeout" ELSE @]]
  /\ UNCHANGED <<serverVars, notReadyThrown>>
  /\ UNCHANGED <<server, requestId, serverReady, outputBuffer, starts, procStatus,
                 pipe, stdin, monitorVars>>

(* ------------------------------ the server ---------------------------- *)
Undefined == "undefined"
Falsy(v) == v = Undefined \/ v = ""

PodUniverse ==
  {[name |-> "web", namespace |-> "default", labels |-> "app=web"],
   [name |-> "db", namespace |-> "default", labels |-> "app=db"],
   [name |-> "dns", namespace |-> "kube-system", labels |-> "app=dns"]}
NodeUniverse == {"n1", "n2"}
Namespaces == {"default", "kube-system"}

ToolNames == <<"list-pods", "get-pod", "list-nodes">>
Arguments == [name : {Undefined, "web", "ghost"},
              namespace : {Undefined, "default", "kube-system"},
              labelSelector : {Undefined, "app=web"}]
NoArguments == [name |-> Undefined, namespace |-> Undefined, labelSelector |-> Undefined]
\* params of tools/call: absent, or a name with arguments present or absent
RequestedNames == {"list-pods", "get-pod", "list-nodes", "invalid-tool"}
Params == [present : {TRUE}, name : RequestedNames,
           hasArguments : {TRUE}, arguments : Arguments]
          \cup [present : {TRUE}, name : RequestedNames,
                hasArguments : {FALSE}, arguments : {NoArguments}]
NoParams == [present |-> FALSE, name |-> Undefined, hasArguments |-> FALSE,
             arguments |-> NoArguments]

NoValue == [tag |-> "none", items |-> {}]
NoResult == [present |-> FALSE, content |-> <<>>, isError |-> FALSE, tools |-> <<>>]
NoError == [present |-> FALSE, message |-> <<>>]
NoRequest == [id |-> 0, method |-> "none", params |-> NoParams]
NoEnvelope == [id |-> 0, result |-> NoResult, error |-> NoError]

\* what a handler hands back: a value, or the message of the Error it threw;
\* calls are the cluster API calls it made
Returned(value, api) == [threw |-> FALSE, value |-> value, message |-> <<>>, calls |-> api]
Threw(message, api) == [threw |-> TRUE, value |-> NoValue, message |-> message, calls |-> api]

listPodsHandler(input) ==
  LET namespace == IF Falsy(input.namespace) THEN cfgNamespace ELSE input.namespace
      api == <<[op |-> "listNamespacedPod", namespace |-> namespace, name |-> Undefined]>>
  IN IF apiUp
     THEN Returned([tag |-> "pods",
                    items |-> {[name |-> pod.name, namespace |-> pod.namespace] :
                                 pod \in {q \in cluster.pods : q.namespace = namespace}}],
                   api)
     ELSE Threw(<<"Failed to list pods: ", "connect ECONNREFUSED">>, api)

\* as getPodHandler, with the pod deleted once it was read
getPodHandlerEvicts(input) ==
  LET name == input.name
      namespace == IF Falsy(input.namespace) THEN cfgNamespace ELSE input.namespace
      api == <<[op |-> "readNamespacedPod", namespace |-> namespace, name |-> name],
               [op |-> "deleteNamespacedPod", namespace |-> namespace, name |-> name]>>
      found == {q \in cluster.pods : q.name = name /\ q.namespace = namespace}
  IN IF Falsy(name) THEN Threw(<<"Pod name is required">>, <<>>)
     ELSE IF ~apiUp THEN Threw(<<"Failed to get pod: ", "connect ECONNREFUSED">>, <<api[1]>>)
     ELSE IF found = {}
          THEN Threw(<<"Pod '", name, "' not found in namespace '", namespace, "'">>,
                     <<api[1]>>)
     ELSE Returned([tag |-> "pod",
                    items |-> {[name |-> pod.name, namespace |-> pod.namespace] :
                                 pod \in found}],
                   api)

getPodHandler(input) ==
  LET name == input.name
      namespace == IF Falsy(input.namespace) THEN cfgNamespace ELSE input.namespace
      api == <<[op |-> "readNamespacedPod", namespace |-> namespace, name |-> name]>>
      found == {q \in cluster.pods : q.name = name /\ q.namespace = namespace}
  IN IF Falsy(name) THEN Threw(<<"Pod name is required">>, <<>>)
     ELSE IF ~apiUp THEN Threw(<<"Failed to get pod: ", "connect ECONNREFUSED">>, api)
     ELSE IF found = {}
          THEN Threw(<<"Pod '", name, "' not found in namespace '", namespace, "'">>, api)
     ELSE Returned([tag |-> "pod",
                    items |-> {[name |-> pod.name, namespace |-> pod.namespace] :
                                 pod \in found}],
                   api)

listNodesHandler ==
  LET api == <<[op |-> "listNode", namespace |-> Undefined, name |-> Undefined]>>
  IN IF apiUp
     THEN Returned([tag |-> "nodes",
                    items |-> {[name |-> n, namespace |-> Undefined] : n \in cluster.nodes}],
                   api)
     ELSE Threw(<<"Failed to list nodes: ", "connect ECONNREFUSED">>, api)

\* what the API server does to the cluster for one call of the client
\* library: the list and read operations leave it as it is
k8sApiEffect(c, call) ==
  IF call.op = "deleteNamespacedPod"
  THEN [c EXCEPT !.pods = {q \in @ : ~(q.name = call.name /\ q.namespace = call.namespace)}]
  ELSE IF call.op = "deleteNode"
  THEN [c EXCEPT !.nodes = @ \ {call.name}]
  ELSE c

RECURSIVE k8sApiEffects(_, _)
k8sApiEffects(c, api) ==
  IF api = <<>> THEN c
  ELSE k8sApiEffects(IF apiUp THEN k8sApiEffect(c, api[1]) ELSE c, Tail(api))

\* { content: [{ type: "text", text: JSON.stringify(value, null, 2) }] }
Success(value) ==
  [present |-> TRUE,
   content |-> <<[type |-> "text", text |-> [json |-> value, message |-> <<>>]]>>,
   isError |-> FALSE, tools |-> <<>>]
\* { content: [{ type: "text", text: `Error: ${error.message}` }], isError: true }
Failure(message) ==
  [present |-> TRUE,
   content |-> <<[type |-> "text",
                  text |-> [json |-> NoValue, message |-> <<"Error: ">> \o message]]>>,
   isError |-> TRUE, tools |-> <<>>]

\* as toolsCall, without the try/catch: the Error of a handler propagates
toolsCallNoCatch(params) ==
  IF ~params.present
  THEN [threw |-> TRUE, message |-> <<"Cannot destructure property 'name'">>,
        result |-> NoResult, invoked |-> <<>>, calls |-> <<>>]
  ELSE LET name == params.name
           args == IF params.hasArguments THEN params.arguments ELSE NoArguments
           call(tool, out) ==
             [threw |-> out.threw, message |-> out.message,
              result |-> IF out.threw THEN NoResult ELSE Success(out.value),
              invoked |-> <<[tool |-> tool, input |-> args]>>, calls |-> out.calls]
       IN IF name = "list-pods" THEN call(name, listPodsHandler(args))
          ELSE IF name = "get-pod" THEN call(name, getPodHandler(args))
          ELSE IF name = "list-nodes" THEN call(name, listNodesHandler)
          ELSE [threw |-> TRUE, message |-> <<"Unknown tool: ", name>>,
                result |-> NoResult, invoked |-> <<>>, calls |-> <<>>]

\* as toolsCall, with a default case that returns an empty result
toolsCallDefaultEmpty(params) ==
  IF ~params.present
  THEN [threw |-> TRUE, message |-> <<"Cannot destructure property 'name'">>,
        result |-> NoResult, invoked |-> <<>>, calls |-> <<>>]
  ELSE LET name == params.name
           args == IF params.hasArguments THEN params.arguments ELSE NoArguments
           call(tool, out) ==
             [threw |-> FALSE, message |-> <<>>,
              result |-> IF out.threw THEN Failure(out.message) ELSE Success(out.value),
              invoked |-> <<[tool |-> tool, input |-> args]>>, calls |-> out.calls]
       IN IF name = "list-pods" THEN call(name, listPodsHandler(args))
          ELSE IF name = "get-pod" THEN call(name, getPodHandler(args))
          ELSE IF name = "list-nodes" THEN call(name, listNodesHandler)
          ELSE [threw |-> FALSE, message |-> <<>>,
                result |-> Success(NoValue),
                invoked |-> <<>>, calls |-> <<>>]

\* the tools/call request handler: what it returns or throws, which handler
\* it invoked with which input, and the cluster API calls made
toolsCall(params) ==
  IF ~params.present
  THEN [threw |-> TRUE, message |-> <<"Cannot destructure property 'name'">>,
        result |-> NoResult, invoked |-> <<>>, calls |-> <<>>]
  ELSE LET name == params.name
           args == IF params.hasArguments THEN params.arguments ELSE NoArguments
           call(tool, out) ==
             [threw |-> FALSE, message |-> <<>>,
              result |-> IF out.threw THEN Failure(out.message) ELSE Success(out.value),
              invoked |-> <<[tool |-> tool, input |-> args]>>, calls |-> out.calls]
       IN IF name = "list-pods" THEN call(name, listPodsHandler(args))
          ELSE IF name = "get-pod" THEN call(name, getPodHandler(args))
          ELSE IF name = "list-nodes" THEN call(name, listNodesHandler)
          ELSE [threw |-> FALSE, message |-> <<>>,
                result |-> Failure(<<"Unknown tool: ", name>>),
                invoked |-> <<>>, calls |-> <<>>]

\* as toolsList, with get-pod listed a second time in place of list-nodes
toolsListRepeats ==
  [present |-> TRUE, content |-> <<>>, isError |-> FALSE,
   tools |-> <<[name |-> "list-pods", type |-> "object", required |-> {},
                properties |-> {"namespace", "labelSelector"},
                default |-> cfgNamespace],
               [name |-> "get-pod", type |-> "object", required |-> {"name"},
                properties |-> {"name", "namespace"},
                default |-> cfgNamespace],
               [name |-> "get-pod", type |-> "object", required |-> {"name"},
                properties |-> {"name", "namespace"},
                default |-> cfgNamespace]>>]

\* the tools/list request handler
toolsList ==
  [present |-> TRUE, content |-> <<>>, isError |-> FALSE,
   tools |-> <<[name |-> "list-pods", type |-> "object", required |-> {},
                properties |-> {"namespace", "labelSelector"},
                default |-> cfgNamespace],
               [name |-> "get-pod", type |-> "object", required |-> {"name"},
                properties |-> {"name", "namespace"},
                default |-> cfgNamespace],
               [name |-> "list-nodes", type |-> "object", required |-> {},
                properties |-> {"labelSelector"},
                default |-> Undefined]>>]

\* the envelope the server writes for a handler's outcome
envelope(id, threw, message, result) ==
  IF threw
  THEN [id |-> id, result |-> NoResult, error |-> [present |-> TRUE, message |-> message]]
  ELSE [id |-> id, result |-> result, error |-> NoError]

ServerInit ==
  /\ srvState = "start"
  /\ srvOut = <<>>
  /\ exitCode = -1
  /\ kubeOk \in BOOLEAN
  /\ cfgNamespace \in Namespaces
  /\ cluster \in [pods : SUBSET PodUniverse, nodes : {NodeUniverse}]
  /\ apiUp \in BOOLEAN
  /\ lastRequest = NoRequest
  /\ lastResponse = NoEnvelope
  /\ invoked = <<>>
  /\ apiCalls = <<>>
  /\ served = {}

\* as MainInitKube, going on when initializeKubernetesClient() returns false
MainInitKubeNoExit ==
  /\ srvState = "start"
  /\ srvState' = "kube"
  /\ srvOut' = srvOut \o <<"Starting">>
                      \o (IF kubeOk THEN <<"Kubernetes client initialized">> ELSE <<>>)
  /\ UNCHANGED clientVars
  /\ UNCHANGED <<exitCode, kubeOk, cfgNamespace, cluster, apiUp, lastRequest, lastResponse,
                 invoked, apiCalls, served>>

\* main(): banner and initializeKubernetesClient()
MainInitKube ==
  /\ srvState = "start"
  /\ srvState' = IF kubeOk THEN "kube" ELSE "exited"
  /\ srvOut' = srvOut \o <<"Starting">>
                      \o (IF kubeOk THEN <<"Kubernetes client initialized">> ELSE <<>>)
  /\ exitCode' = IF kubeOk THEN exitCode ELSE 1
  /\ UNCHANGED clientVars
  /\ UNCHANGED <<kubeOk, cfgNamespace, cluster, apiUp, lastRequest, lastResponse,
                 invoked, apiCalls, served>>

\* main(): the handlers are registered and the stdio transport is connected
MainConnect ==
  /\ srvState = "kube"
  /\ srvState' = "connected"
  /\ UNCHANGED clientVars
  /\ UNCHANGED <<srvOut, exitCode, kubeOk, cfgNamespace, cluster, apiUp, lastRequest,
                 lastResponse, invoked, apiCalls, served>>

\* main(): the two console.log lines after server.connect
MainReady ==
  /\ srvState = "connected"
  /\ srvState' = "ready"
  /\ srvOut' = srvOut \o <<"MCP server started and connected via stdio",
                            "Ready to receive MCP requests...">>
  /\ UNCHANGED clientVars
  /\ UNCHANGED <<exitCode, kubeOk, cfgNamespace, cluster, apiUp, lastRequest,
                 lastResponse, invoked, apiCalls, served>>

\* one tools/call request is handled
ToolsCall(id, params) ==
  /\ srvState = "ready"
  /\ LET out == toolsCall(params)
     IN /\ lastRequest' = [id |-> id, method |-> "tools/call", params |-> params]
        /\ lastResponse' = envelope(id, out.threw, out.message, out.result)
        /\ invoked' = out.invoked
        /\ apiCalls' = out.calls
        /\ served' = served \cup {"tools/call"}
        /\ cluster' = k8sApiEffects(cluster, out.calls)
  /\ UNCHANGED clientVars
  /\ UNCHANGED <<srvState, srvOut, exitCode, kubeOk, cfgNamespace, apiUp>>

\* one tools/list request is handled
ToolsList(id) ==
  /\ srvState = "ready"
  /\ lastRequest' = [id |-> id, method |-> "tools/list", params |-> NoParams]
  /\ lastResponse' = envelope(id, FALSE, <<>>, toolsList)
  /\ invoked' = <<>>
  /\ apiCalls' = <<>>
  /\ served' = served \cup {"tools/list"}
  /\ UNCHANGED clientVars
  /\ UNCHANGED <<srvState, srvOut, exitCode, kubeOk, cfgNamespace, cluster, apiUp>>

\* chunk sizes that end at a line terminator, and the empty chunk
WholeLines(bytes) == {0} \cup {k \in 1..Len(bytes) : bytes[k] = "LF"}
AnySize(bytes) == 0..Len(bytes)

vars == <<clientVars, serverVars>>

\* the client, started once, with a worker of which only the output is modelled
Init ==
  /\ ClientInit
  /\ srvState = "start" /\ srvOut = <<>> /\ exitCode = -1 /\ kubeOk = TRUE
  /\ cfgNamespace = "default" /\ cluster = [pods |-> {}, nodes |-> {"n1"}]
  /\ apiUp = TRUE /\ lastRequest = NoRequest /\ lastResponse = NoEnvelope
  /\ invoked = <<>> /\ apiCalls = <<>> /\ served = {}

Next ==
  \/ \E ok \in BOOLEAN : server = 0 /\ starts[1].state = "none" /\ Start(ok)
  \/ Cleanup
  \/ \E p \in Procs : StartTimeout(p)
  \/ \E p \in Procs : SpawnError(p)
  \/ \E p \in Procs : WorkerExit(p)
  \/ \E p \in Procs : WorkerReady(p)
  \/ \E p \in Procs, e \in Replies : WorkerSend(p, e)
  \/ \E p \in Procs : \E k \in WholeLines(pipe[p]) : Data(p, k)
  \/ SendRequest
  \/ SendRequestNotReady
  \/ \E id \in CallIds : RequestTimeout(id)

Spec == Init /\ [][Next]_vars

\* The same, with timers that fire unless they are cleared: a callback given
\* to setTimeout runs once its delay has passed
TimersFire ==
  /\ \A id \in CallIds : WF_vars(RequestTimeout(id))
  /\ \A p \in Procs : WF_vars(StartTimeout(p))

SpecLive == Init /\ [][Next]_vars /\ TimersFire

\* The client started again after cleanup() or after the start timer: the
\* output of a worker that was killed can arrive while the next one runs
NextRestart ==
  \/ server = 0 /\ Start(TRUE)
  \/ Cleanup
  \/ \E p \in Procs : StartTimeout(p)
  \/ \E p \in Procs : WorkerReady(p)
  \/ \E p \in Procs : \E k \in WholeLines(pipe[p]) : Data(p, k)
  \/ SendRequest
  \/ SendRequestNotReady
  \/ \E id \in CallIds : RequestTimeout(id)

SpecRestart == Init /\ [][NextRestart]_vars

\* Callers that want a timeout of their own for a call
CallerTimeouts == {500, 5000}

NextDeadline ==
  \/ server = 0 /\ starts[1].state = "none" /\ Start(TRUE)
  \/ \E p \in Procs : WorkerReady(p)
  \/ \E p \in Procs, e \in Replies : WorkerSend(p, e)
  \/ \E p \in Procs : \E k \in WholeLines(pipe[p]) : Data(p, k)
  \/ \E ms \in CallerTimeouts : SendRequestWithin(ms)
  \/ \E id \in CallIds : RequestTimeout(id)

SpecDeadline == Init /\ [][NextDeadline]_vars

\* One worker, any chunking of its output, log lines between the frames
NextDemux ==
  \/ server = 0 /\ Start(TRUE)
  \/ \E p \in Procs : WorkerReady(p)
  \/ \E p \in Procs, line \in NoiseLines : WorkerEmit(p, line)
  \/ \E p \in Procs, e \in Envelopes : WorkerSend(p, e)
  \/ \E p \in Procs : \E k \in AnySize(pipe[p]) : Data(p, k)
  \/ requestId = 0 /\ SendRequest

SpecDemux == Init /\ [][NextDemux]_vars
\* The server alone: main() and the requests it handles
InitServer == ClientInit /\ ServerInit

NextServer ==
  \/ MainInitKube
  \/ MainConnect
  \/ MainReady
  \/ \E id \in CallIds, params \in Params \cup {NoParams} :
        ToolsCall(id, params)
  \/ \E id \in CallIds : ToolsList(id)

SpecServer == InitServer /\ [][NextServer]_vars

(* ------------------------------ properties ----------------------------- *)
Settled(id) == calls[id].state \in {"resolved", "timeout"}
AllRead == \A p \in Procs : pipe[p] = <<>>
Registered(name) == \E i \in 1..Len(ToolNames) : ToolNames[i] = name
IsToolsCall == lastRequest.method = "tools/call" /\ lastRequest.params.present
RequestArgs == IF lastRequest.params.hasArguments THEN lastRequest.params.arguments
               ELSE NoArguments
\* whether the handler of the last request ended with an Error
HandlerFailed ==
  /\ IsToolsCall
  /\ \/ lastRequest.params.name = "list-pods" /\ listPodsHandler(RequestArgs).threw
     \/ lastRequest.params.name = "get-pod" /\ getPodHandler(RequestArgs).threw
     \/ lastRequest.params.name = "list-nodes" /\ listNodesHandler.threw

\* C1: whatever the order in which the responses of the outstanding calls
\* arrive, a call that completes with a response completes with the response
\* that bears the id allocated to that call.
C1_OwnResponse ==
  \A id \in CallIds : calls[id].state = "resolved" => calls[id].response.id = id

\* a later call has its response while an earlier one, outstanding with it, has none
C1_Witness ==
  \E i, j \in CallIds :
     /\ i < j
     /\ calls[i].state = "pending" /\ i \in responseHandlers
     /\ calls[j].state = "resolved"

\* C2: a call is completed at most once: resolve or reject is invoked at most
\* once per call under every interleaving of responses, timeouts and
\* cleanup(), and a completed call has no entry in the handler table and no
\* armed timer, so neither a later message nor a timer completes it again.
C2_AtMostOnce ==
  \A id \in CallIds :
     /\ calls[id].settles <= 1
     /\ Settled(id) <=> calls[id].settles = 1
     /\ Settled(id) => id \notin responseHandlers /\ calls[id].timer # "armed"

\* a second response for a call already resolved was parsed and dropped
C2_Witness ==
  \E id \in CallIds :
     /\ calls[id].state = "resolved"
     /\ lastDropped = [id |-> id, was |-> "resolved"]

\* C3: a call whose timer fired before a response with its id arrived has
\* failed with the timeout error and has no table entry, and a response with
\* that id arriving afterwards changes neither the table nor any call.
C3_LateResponseDropped ==
  \A id \in CallIds :
     /\ calls[id].timer = "fired" => calls[id].state = "timeout"
     /\ calls[id].state = "timeout" =>
          /\ id \notin responseHandlers
          /\ \A k \in {"result", "error"} :
               LET late == [id |-> id, kind |-> k, payload |-> <<>>]
                   st == processLine(Frame(late), ClientState)
               IN st.h = responseHandlers /\ st.c = calls

\* a response arrived for a call that had timed out, while another call was pending
C3_Witness ==
  \E id, other \in CallIds :
     /\ calls[id].state = "timeout"
     /\ lastDropped = [id |-> id, was |-> "timeout"]
     /\ calls[other].state = "pending" /\ other \in responseHandlers

\* C4: when cleanup() has run (the client gives up its worker), no call
\* issued before it is still pending.
C4_CleanupFailsPending ==
  [][(server # 0 /\ server' = 0) => \A id \in CallIds : calls'[id].state # "pending"]_vars

\* C5: however the bytes of the frames written by the worker are split into
\* chunks, the envelopes parsed are exactly the envelopes written, in order,
\* and all of them once the output has been read.
C5_FramesPreserved ==
  /\ demux = "ok"
  /\ AllRead => inflight = <<>>

\* C6: lines that are not envelopes are skipped: every envelope parsed is the
\* next frame the worker wrote (by id and kind), so no such line settles or
\* removes a pending call, and once the output has been read every frame
\* written before or after such lines has been delivered.
C6_NoiseIgnored ==
  /\ demux \notin {"spurious", "wrong"}
  /\ AllRead => inflight = <<>> /\ outputBuffer = <<>>
  /\ \A id \in CallIds :
       /\ id \in responseHandlers => calls[id].state = "pending"
       /\ calls[id].state = "resolved" => calls[id].response.id = id

\* a line was skipped while the call was pending, and the call got its response
C6_Witness ==
  /\ ignored >= 1
  /\ AllRead /\ inflight = <<>>
  /\ \E id \in CallIds : calls[id].state = "resolved"

\* C7: a tools/call request that names no registered tool is answered with an
\* error envelope and not with a result.
C7_UnknownToolIsProtocolError ==
  (IsToolsCall /\ ~Registered(lastRequest.params.name)) =>
     lastResponse.error.present /\ ~lastResponse.result.present

\* C8: a get-pod request without name is answered with an error envelope and
\* the handler is not invoked for it.
C8_MissingNameIsProtocolError ==
  (IsToolsCall /\ lastRequest.params.name = "get-pod" /\ Falsy(RequestArgs.name)) =>
     lastResponse.error.present /\ ~lastResponse.result.present /\ invoked = <<>>

\* C9: when the handler of a tools/call request fails, the response is a
\* result, without error object, whose content is one text that carries the
\* message of the failure and whose isError is true.
C9_HandlerFailureIsFlaggedResult ==
  HandlerFailed =>
     /\ lastResponse.id = lastRequest.id
     /\ ~lastResponse.error.present
     /\ lastResponse.result.present
     /\ lastResponse.result.isError
     /\ Len(lastResponse.result.content) = 1
     /\ lastResponse.result.content[1].type = "text"
     /\ Len(lastResponse.result.content[1].text.message) > 1
     /\ lastResponse.result.content[1].text.message[1] = "Error: "

\* get-pod for a pod the cluster does not have
C9_Witness ==
  /\ IsToolsCall /\ lastRequest.params.name = "get-pod"
  /\ apiUp /\ RequestArgs.name = "ghost"
  /\ lastResponse.result.isError
  /\ lastResponse.result.content[1].text.message[2] = "Pod '"

\* C10: when a list-pods or get-pod request omits namespace, the handler is
\* invoked with the default already in its input, and the cluster is asked
\* for the configured default namespace.
C10_DefaultSubstitutedBeforeHandler ==
  (IsToolsCall /\ lastRequest.params.name \in {"list-pods", "get-pod"}
     /\ RequestArgs.namespace = Undefined /\ invoked # <<>>) =>
     /\ \A i \in 1..Len(invoked) : invoked[i].input.namespace # Undefined
     /\ \A i \in 1..Len(apiCalls) : apiCalls[i].namespace = cfgNamespace

\* C11: a request is written to a worker, and an id allocated, only after the
\* start() of that worker has observed its readiness line; a sendRequest made
\* while the client is not ready is refused and changes neither the id
\* counter, nor the worker's input, nor the handler table, nor any call.
C11_NoRequestBeforeReadiness ==
  [][/\ (requestId' # requestId \/ stdin' # stdin) =>
          server # 0 /\ starts[server].state = "resolved"
     /\ (~serverReady \/ server = 0) => UNCHANGED <<requestId, stdin>>
     /\ notReadyThrown' # notReadyThrown =>
          UNCHANGED <<requestId, stdin, responseHandlers, calls>>]_vars

\* C12: when the worker the client holds ends by itself, the client gives up
\* its handle and is no longer ready, and no call that was pending is still
\* pending.  (The client registers no listener for the end of the process, so
\* the step at which the process ends is the only one at which it could act.)
C12_ExitFailsPending ==
  [][\A p \in Procs :
       (server = p /\ procStatus[p] \in Live /\ procStatus'[p] = "exited") =>
          /\ server' = 0 /\ ~serverReady'
          /\ \A id \in CallIds : calls'[id].state # "pending"]_vars

\* C13: every call that sendRequest accepted is completed in the end, by its
\* response or by its timer, whatever the worker does and whether or not
\* cleanup() is called, given that timers fire.
C13_EveryCallCompletes ==
  \A id \in CallIds : (calls[id].state = "pending") ~> Settled(id)

\* a call was completed by its timer after cleanup() had given up the worker
C13_Witness ==
  \E id \in CallIds :
     /\ calls[id].state = "timeout"
     /\ server = 0 /\ id \notin responseHandlers
     /\ \E p \in Procs : procStatus[p] = "killed" /\ stdin[p] # <<>>

C15_ErrorResponseFails ==
  \A id \in CallIds :
     /\ calls[id].response # NoResponse => id \notin responseHandlers
     /\ calls[id].response.kind = "result" => calls[id].state = "resolved"
     /\ calls[id].response.kind = "error" => calls[id].state # "resolved"

\* every id a message can carry (0: no id member), with each kind of member
AnyEnvelope == [id : 0..Len(IdToks), kind : {"result", "error", "method"},
                payload : {<<>>}]

\* C16: a message whose id is in no entry of the handler table (an id never
\* issued, of a call already resolved or timed out, or no id) changes neither
\* the table, nor a timer, nor the outcome of any call, and a frame that
\* follows it in the buffer is handled as if the message had not been there.
C16_UnmatchedDropped ==
  \A e \in AnyEnvelope :
     e.id \notin responseHandlers =>
        /\ LET st == processLine(Frame(e), ClientState)
           IN st.h = responseHandlers /\ st.c = calls /\ st.buf = outputBuffer
        /\ \A n \in Replies :
             LET later == Frame(n) \o <<"LF">>
                 with == processOutputBuffer(
                           [ClientState EXCEPT !.buf = @ \o Frame(e) \o <<"LF">> \o later])
                 without == processOutputBuffer([ClientState EXCEPT !.buf = @ \o later])
             IN with.h = without.h /\ with.c = without.c /\ with.buf = without.buf

\* a second response for a resolved call was dropped while another call was
\* pending with its timer armed
C16_Witness ==
  \E id, other \in CallIds :
     /\ lastDropped = [id |-> id, was |-> "resolved"]
     /\ other # id /\ other \in responseHandlers
     /\ calls[other].state = "pending" /\ calls[other].timer = "armed"

\* C17: a call resolved by its response has its timer cleared, stays resolved
\* and keeps its response: no timer fires for it and nothing reports it as
\* failed afterwards.
C17_ResolvedTimerCancelled ==
  [][\A id \in CallIds :
       calls[id].state = "resolved" =>
          /\ calls[id].timer = "cleared"
          /\ calls'[id] = calls[id]]_vars

\* a call is resolved, and time has passed since: the timer of a later call
\* has fired
C17_Witness ==
  \E id, other \in CallIds :
     /\ id < other
     /\ calls[id].state = "resolved" /\ calls[id].timer = "cleared"
     /\ calls[other].timer = "fired"

C19_ToolsListComplete ==
  lastRequest.method = "tools/list" =>
     LET tools == lastResponse.result.tools
     IN /\ lastResponse.id = lastRequest.id
        /\ lastResponse.result.present /\ ~lastResponse.error.present
        /\ [i \in 1..Len(tools) |-> tools[i].name] = <<"list-pods", "get-pod", "list-nodes">>
        /\ [i \in 1..Len(tools) |-> tools[i].name] = ToolNames
        /\ \A i \in 1..Len(tools) :
             tools[i].type = "object" /\ "properties" \in DOMAIN tools[i]

\* tools/list was answered after a tools/call request had been handled
C19_Witness ==
  /\ lastRequest.method = "tools/list"
  /\ "tools/call" \in served
  /\ Len(lastResponse.result.tools) = 3

\* whether a text, given by its parts, has a part that holds one of the words
Mentions(message, parts) == \E i \in 1..Len(message) : message[i] \in parts

\* C20: a tools/call request that names none of the server's tools gets one
\* response with its id, which is either an error whose message holds
\* "Unknown tool" or "not found", or a result whose first content text holds
\* "Error" or "Unknown".
C20_UnknownToolAnswered ==
  (IsToolsCall /\ ~Registered(lastRequest.params.name)) =>
     /\ lastResponse.id = lastRequest.id
     /\ \/ /\ lastResponse.error.present /\ ~lastResponse.result.present
           /\ Mentions(lastResponse.error.message, {"Unknown tool: ", "' not found in namespace '"})
        \/ /\ lastResponse.result.present /\ ~lastResponse.error.present
           /\ Len(lastResponse.result.content) >= 1
           /\ Mentions(lastResponse.result.content[1].text.message,
                       {"Error: ", "Unknown tool: "})

\* invalid-tool was called and answered with the flagged result, no handler invoked
C20_Witness ==
  /\ IsToolsCall /\ lastRequest.params.name = "invalid-tool"
  /\ lastResponse.id = lastRequest.id
  /\ invoked = <<>> /\ apiCalls = <<>>
  /\ lastResponse.result.content[1].text.message = <<"Error: ", "Unknown tool: ", "invalid-tool">>

\* the operations of the client library that read the cluster
ReadOperations == {"listNamespacedPod", "readNamespacedPod", "listNode"}

\* C21: the tools are read-only: no request, with whatever arguments and
\* whether it succeeds or fails, changes the pods or the nodes of the cluster,
\* and every call a handler makes to the API server is a list or a read.
C21_ToolsReadOnly ==
  /\ [][cluster' = cluster]_vars
  /\ [](\A i \in 1..Len(apiCalls) : apiCalls[i].op \in ReadOperations)

\* tools/call requests were handled and the last one read a pod of the cluster
C21_Witness ==
  /\ IsToolsCall /\ lastRequest.params.name = "get-pod"
  /\ apiUp /\ Len(apiCalls) = 1 /\ apiCalls[1].op = "readNamespacedPod"
  /\ ~lastResponse.result.isError
  /\ \E q \in cluster.pods : q.name = apiCalls[1].name /\ q.namespace = apiCalls[1].namespace

\* C22: a successful list-pods answer holds the pods of the namespace asked
\* for (the configured one when none is given): those whose labels match the
\* labelSelector when one is given, all of them otherwise.
C22_LabelSelectorFilters ==
  (IsToolsCall /\ lastRequest.params.name = "list-pods"
     /\ lastResponse.result.present /\ ~lastResponse.result.isError) =>
     LET namespace == IF Falsy(RequestArgs.namespace) THEN cfgNamespace
                      ELSE RequestArgs.namespace
         selector == RequestArgs.labelSelector
         wanted == {q \in cluster.pods :
                      /\ q.namespace = namespace
                      /\ selector = Undefined \/ q.labels = selector}
     IN lastResponse.result.content[1].text.json.items =
          {[name |-> q.name, namespace |-> q.namespace] : q \in wanted}

\* C23: the timer of a call runs for the duration the caller of that call
\* chose, so that two calls outstanding together can have different
\* durations.
C23_OwnDeadline ==
  \A id \in CallIds :
     (calls[id].state # "none" /\ calls[id].requested # 0) =>
        calls[id].timeoutMs = calls[id].requested

\* C24: sendRequest allocates the next positive integer, greater than every id
\* allocated before, also after cleanup() and a later start(): the ids
\* written to the workers are all different and increase in the order of
\* writing, and a call is pending under an id that was allocated.
C24_IdsUniqueIncreasing ==
  /\ [][requestId' # requestId =>
          /\ requestId' = requestId + 1 /\ requestId' > 0
          /\ calls[requestId'].state = "none"
          /\ \E p \in Procs : stdin'[p] = Append(stdin[p], requestId')]_vars
  /\ [](\A p \in Procs : \A i \in 1..Len(stdin[p]) :
          /\ stdin[p][i] \in 1..requestId
          /\ \A j \in 1..Len(stdin[p]) : i < j => stdin[p][i] < stdin[p][j]
          /\ \A q \in Procs : p < q =>
               \A j \in 1..Len(stdin[q]) : stdin[p][i] < stdin[q][j])
  /\ [](\A id \in CallIds : calls[id].state = "pending" => id \in 1..requestId)

\* a request was written to a worker, and after cleanup() and start() another
\* request to the next worker
C24_Witness ==
  \E p, q \in Procs :
     /\ p < q /\ stdin[p] # <<>> /\ stdin[q] # <<>>
     /\ procStatus[p] = "killed" /\ server = q

\* C25: only a response settles a call: the message a call was completed
\* with carries result or error, never a method, also when a request of the
\* worker bears the id of a pending call.
C25_OnlyResponsesSettle ==
  \A id \in CallIds :
     calls[id].response # NoResponse => calls[id].response.kind \in {"result", "error"}

\* C26: the tools/call handler raises for no request, whatever the tool name
\* and whether params and arguments are there or not: the request gets one
\* envelope with its id, which holds either a result or an error, and the
\* server goes on serving.
C26_DispatcherNeverRaises ==
  lastRequest.method = "tools/call" =>
     /\ ~toolsCall(lastRequest.params).threw
     /\ lastResponse.id = lastRequest.id
     /\ lastResponse.result.present # lastResponse.error.present
     /\ srvState = "ready"

\* whether main() has printed the line
Printed(line) == \E i \in 1..Len(srvOut) : srvOut[i] = line

\* C27: the readiness line is printed only once the Kubernetes client was
\* initialised and the transport connected; when the initialisation fails the
\* server exits with status 1, has not printed the readiness line and does
\* not connect, and it stays exited.
C27_ReadyAfterInitAndConnect ==
  /\ [](Printed("Ready to receive MCP requests...") =>
          /\ kubeOk /\ srvState = "ready"
          /\ Printed("Kubernetes client initialized"))
  /\ []((~kubeOk /\ srvState # "start") =>
          /\ srvState = "exited" /\ exitCode = 1
          /\ ~Printed("Ready to receive MCP requests..."))
  /\ [][/\ (srvState' = "connected" /\ srvState # "connected") =>
             srvState = "kube" /\ kubeOk
        /\ (srvState' = "ready" /\ srvState # "ready") => srvState = "connected"
        /\ srvState = "exited" => srvState' = "exited"]_vars

\* the initialisation of the Kubernetes client failed and the server exited
C27_Witness ==
  /\ ~kubeOk /\ srvState = "exited" /\ exitCode = 1
  /\ srvOut = <<"Starting">>

\* C28: once the client has read the whole output of a worker that printed
\* the readiness line, and the start timer has not fired, start() is resolved
\* and the client ready, however the output was split into chunks.
C28_ReadinessAnyChunking ==
  \A p \in Procs :
     (procStatus[p] = "serving" /\ pipe[p] = <<>> /\ starts[p].timer # "fired") =>
        starts[p].state = "resolved" /\ serverReady

\* C29: serverReady is true only while the client holds a worker process.
C29_ReadyOnlyWithHandle ==
  serverReady => server # 0

\* C30: for every request id, a response handler is in the table if and only
\* if the timer of that request is armed.
C30_HandlerIffTimerArmed ==
  \A id \in CallIds : id \in responseHandlers <=> calls[id].timer = "armed"

=============================================================================
